---- MODULE Spec2Model ----
(***************************************************************************)
(* The bytecode container of orion (src/src/bytecode.rs): the instruction  *)
(* encoder OpCode::serialize and the container encoder                     *)
(* Bytecode::serialize.                                                    *)
(*                                                                         *)
(* Bytes, characters and table lengths are naturals.  A string is the      *)
(* sequence of the code points of its chars.  Machine integers wider than  *)
(* 31 bits (the u64 second count, the u32 timestamp, i64 and f64           *)
(* payloads) are sequences of 16-bit limbs, most significant limb first,   *)
(* because TLC's integers are 32-bit.                                      *)
(***************************************************************************)
EXTENDS Integers, Sequences, FiniteSets, TLC

VARIABLES
    op,        \* SpecOp: the OpCode of the last OpCode::serialize call (<<>>: none yet)
    ret,       \* SpecOp: the Vec<u8> that call returned
    prog,      \* SpecStream: the instructions the iterator has yielded so far
    enc,       \* SpecStream: the flattened bytes of their encodings
    bytecode,  \* Spec: the Bytecode container (its six pub fields)
    calls      \* Spec: the Bytecode::serialize calls made so far, oldest first

vars == <<op, ret, prog, enc, bytecode, calls>>

----------------------------------------------------------------------------
(* Integer widths and conversions                                          *)

\* 2^8: the range of u8, the target of `c as u8`
U8Mod == 256

\* 2^16: the range of u16, the target of `len() as u16`
U16Mod == 65536

\* `x as u8` on a wider unsigned value or a char: the low 8 bits
AsU8(x) == x % U8Mod

\* `x as u16` on a usize: the low 16 bits
AsU16(x) == x % U16Mod

\* to_be_bytes of an unsigned value of `width` bytes
RECURSIVE ToBeBytes(_, _)
ToBeBytes(x, width) ==
    IF width = 0 THEN <<>>
    ELSE ToBeBytes(x \div U8Mod, width - 1) \o <<x % U8Mod>>

\* Iterator::flatten over the items lo..hi of a sequence of byte sequences
\* (split in halves, so that a long stream does not nest as deep as it is long)
RECURSIVE FlattenRange(_, _, _)
FlattenRange(ss, lo, hi) ==
    IF lo > hi THEN <<>>
    ELSE IF lo = hi THEN ss[lo]
    ELSE LET mid == (lo + hi) \div 2
         IN  FlattenRange(ss, lo, mid) \o FlattenRange(ss, mid + 1, hi)

Flatten(ss) == FlattenRange(ss, 1, Len(ss))

\* to_be_bytes of a value held as 16-bit limbs (u32: 2 limbs, u64/i64: 4 limbs)
LimbsToBeBytes(limbs) ==
    Flatten([k \in 1..Len(limbs) |-> ToBeBytes(limbs[k], 2)])

\* `secs as u32` on the u64 of Duration::as_secs: the low two limbs
AsU32(secs) == SubSeq(secs, 3, 4)

----------------------------------------------------------------------------
(* OpCode                                                                  *)

\* An OpCode is <<variant, operand>> or <<variant, operand, operand>>.
OneU16 == {"LoadConst", "LoadSym", "Call", "Lambda", "Tuple"}
TwoU16 == {"Def", "Constructor"}

\* The operand values the instruction encoder is applied to
U16Samples == {0, 1, 255, 256, 300, 65280, 65534, 65535}
U8Samples == {0, 2, 3, 128, 255}

OpCodesOver(u16, u8) ==
    {<<v, a>> : v \in OneU16, a \in u16}
    \cup {<<"Builtin", a, b>> : a \in u8, b \in u8}
    \cup {<<v, a, b>> : v \in TwoU16, a \in u16, b \in u16}

OpCodes == OpCodesOver(U16Samples, U8Samples)

\* OpCode::serialize with the operands little-endian
OpSerializeLittleEndian(o) ==
    LET le(x) == <<x % U8Mod, x \div U8Mod>>
    IN  CASE o[1] = "LoadConst"   -> <<0>> \o le(o[2])
          [] o[1] = "LoadSym"     -> <<1>> \o le(o[2])
          [] o[1] = "Call"        -> <<2>> \o le(o[2])
          [] o[1] = "Builtin"     -> <<3, o[2], o[3]>>
          [] o[1] = "Def"         -> <<4>> \o le(o[2]) \o le(o[3])
          [] o[1] = "Lambda"      -> <<5>> \o le(o[2])
          [] o[1] = "Constructor" -> <<6>> \o le(o[2]) \o le(o[3])
          [] o[1] = "Tuple"       -> <<7>> \o le(o[2])

\* OpCode::serialize with Lambda given LoadSym's tag
OpSerializeLambdaTag1(o) ==
    CASE o[1] = "LoadConst"   -> <<0>> \o ToBeBytes(o[2], 2)
      [] o[1] = "LoadSym"     -> <<1>> \o ToBeBytes(o[2], 2)
      [] o[1] = "Call"        -> <<2>> \o ToBeBytes(o[2], 2)
      [] o[1] = "Builtin"     -> <<3, o[2], o[3]>>
      [] o[1] = "Def"         -> <<4>> \o ToBeBytes(o[2], 2) \o ToBeBytes(o[3], 2)
      [] o[1] = "Lambda"      -> <<1>> \o ToBeBytes(o[2], 2)
      [] o[1] = "Constructor" -> <<6>> \o ToBeBytes(o[2], 2) \o ToBeBytes(o[3], 2)
      [] o[1] = "Tuple"       -> <<7>> \o ToBeBytes(o[2], 2)

\* OpCode::serialize
OpSerialize(o) ==
    CASE o[1] = "LoadConst"   -> <<0>> \o ToBeBytes(o[2], 2)
      [] o[1] = "LoadSym"     -> <<1>> \o ToBeBytes(o[2], 2)
      [] o[1] = "Call"        -> <<2>> \o ToBeBytes(o[2], 2)
      [] o[1] = "Builtin"     -> <<3, o[2], o[3]>>
      [] o[1] = "Def"         -> <<4>> \o ToBeBytes(o[2], 2) \o ToBeBytes(o[3], 2)
      [] o[1] = "Lambda"      -> <<5>> \o ToBeBytes(o[2], 2)
      [] o[1] = "Constructor" -> <<6>> \o ToBeBytes(o[2], 2) \o ToBeBytes(o[3], 2)
      [] o[1] = "Tuple"       -> <<7>> \o ToBeBytes(o[2], 2)

\* instructions.iter().map(|instr| instr.serialize()).flatten()
SerializeInstrs(instrs) ==
    Flatten([k \in 1..Len(instrs) |-> OpSerialize(instrs[k])])

----------------------------------------------------------------------------
(* parser::Literal                                                         *)

\* A Literal is <<"String", s>>, <<"Integer", i>> or <<"Single", f>>:
\*   s  the code points of the chars of the String;
\*   i  an i64 as [neg, mag]: its sign and its magnitude in 4 limbs;
\*   f  an f64 as [sign, exp, frac]: the sign bit, the 11-bit biased exponent
\*      and the 52-bit fraction as <<top 4 bits, limb, limb, limb>>.

\* The 64 bits of an i64 (two's complement), as 4 limbs
Complement(limbs) == [k \in 1..Len(limbs) |-> (U16Mod - 1) - limbs[k]]

RECURSIVE IncrementAt(_, _)
IncrementAt(limbs, k) ==
    IF k = 0 THEN limbs
    ELSE IF limbs[k] < U16Mod - 1 THEN [limbs EXCEPT ![k] = @ + 1]
    ELSE IncrementAt([limbs EXCEPT ![k] = 0], k - 1)

I64Bits(i) ==
    IF i.neg THEN IncrementAt(Complement(i.mag), Len(i.mag)) ELSE i.mag

\* f64::to_bits: sign, exponent and fraction packed into 64 bits, as 4 limbs
F64Bits(f) == <<f.sign * 32768 + f.exp * 16 + f.frac[1]>> \o Tail(f.frac)

\* The constants the compiler may put in the pool:
\* 42, -65536, 1.5 and the string "λ!" (U+03BB, U+0021)
Literals ==
    { <<"Integer", [neg |-> FALSE, mag |-> <<0, 0, 0, 42>>]>>,
      <<"Integer", [neg |-> TRUE, mag |-> <<0, 0, 1, 0>>]>>,
      <<"Single", [sign |-> 0, exp |-> 1023, frac |-> <<8, 0, 0, 0>>]>>,
      <<"String", <<955, 33>>>> }

\* One constant with the discriminants of Integer and Single exchanged
ConstantBytesTagsExchanged(c) ==
    <<CASE c[1] = "String" -> 0
        [] c[1] = "Integer" -> 2
        [] c[1] = "Single" -> 1>>
    \o CASE c[1] = "Integer" -> LimbsToBeBytes(I64Bits(c[2]))
         [] c[1] = "Single" -> LimbsToBeBytes(F64Bits(c[2]))
         [] c[1] = "String" -> [k \in 1..Len(c[2]) |-> AsU8(c[2][k])] \o <<0>>

\* The discriminant byte and the payload of one constant
ConstantBytes(c) ==
    <<CASE c[1] = "String" -> 0
        [] c[1] = "Integer" -> 1
        [] c[1] = "Single" -> 2>>
    \o CASE c[1] = "Integer" -> LimbsToBeBytes(I64Bits(c[2]))
         [] c[1] = "Single" -> LimbsToBeBytes(F64Bits(c[2]))
         [] c[1] = "String" -> [k \in 1..Len(c[2]) |-> AsU8(c[2][k])] \o <<0>>

----------------------------------------------------------------------------
(* Bytecode                                                                *)

\* Bytecode::new
BytecodeNew ==
    [chunks |-> <<>>, matches |-> <<>>, symbols |-> <<>>,
     constants |-> <<>>, instructions |-> <<>>, constructors |-> <<>>]

\* The chars of "orion"
Magic == <<111, 114, 105, 111, 110>>

\* The 4 timestamp bytes: (as_secs() as u32).to_be_bytes()
Timestamp(secs) == LimbsToBeBytes(AsU32(secs))

\* One symbol without its terminator
SymbolBytesUnterminated(sym) == [k \in 1..Len(sym) |-> AsU8(sym[k])]

\* One symbol: a byte per char, then the terminator
SymbolBytes(sym) == [k \in 1..Len(sym) |-> AsU8(sym[k])] \o <<0>>

\* // Symbols
SymbolSection(symbols) ==
    ToBeBytes(AsU16(Len(symbols)), 2)
    \o Flatten([k \in 1..Len(symbols) |-> SymbolBytes(symbols[k])])

\* // Consts
ConstantSection(constants) ==
    ToBeBytes(AsU16(Len(constants)), 2)
    \o Flatten([k \in 1..Len(constants) |-> ConstantBytes(constants[k])])

\* // Constructors
ConstructorSection(constructors) ==
    ToBeBytes(AsU16(Len(constructors)), 2) \o constructors

\* One chunk with the number of instructions in its length field
ChunkBytesCountingInstructions(chunk) ==
    LET serialized == SerializeInstrs(chunk.instructions)
    IN  ToBeBytes(AsU16(Len(chunk.reference)), 2)
        \o Flatten([k \in 1..Len(chunk.reference) |->
                        ToBeBytes(chunk.reference[k], 2)])
        \o ToBeBytes(AsU16(Len(chunk.instructions)), 2)
        \o serialized

\* One chunk: the references, then the length-prefixed instruction bytes
ChunkBytes(chunk) ==
    LET serialized == SerializeInstrs(chunk.instructions)
    IN  ToBeBytes(AsU16(Len(chunk.reference)), 2)
        \o Flatten([k \in 1..Len(chunk.reference) |->
                        ToBeBytes(chunk.reference[k], 2)])
        \o ToBeBytes(AsU16(Len(serialized)), 2)
        \o serialized

\* // Chunks
ChunkSection(chunks) ==
    ToBeBytes(AsU16(Len(chunks)), 2)
    \o Flatten([k \in 1..Len(chunks) |-> ChunkBytes(chunks[k])])

\* // Instructions
InstructionSection(instructions) ==
    LET serialized == SerializeInstrs(instructions)
    IN  ToBeBytes(AsU16(Len(serialized)), 2) \o serialized

\* Bytecode::serialize with the chunk table written before the constructors
SerializeChunksBeforeConstructors(self, secs) ==
    [k \in 1..Len(Magic) |-> AsU8(Magic[k])]
    \o Timestamp(secs)
    \o SymbolSection(self.symbols)
    \o ConstantSection(self.constants)
    \o ChunkSection(self.chunks)
    \o ConstructorSection(self.constructors)
    \o InstructionSection(self.instructions)

\* Bytecode::serialize with the second count written whole, as a u64
SerializeStampU64(self, secs) ==
    [k \in 1..Len(Magic) |-> AsU8(Magic[k])]
    \o LimbsToBeBytes(secs)
    \o SymbolSection(self.symbols)
    \o ConstantSection(self.constants)
    \o ConstructorSection(self.constructors)
    \o ChunkSection(self.chunks)
    \o InstructionSection(self.instructions)

\* Bytecode::serialize with a count written for the match table
SerializeWithMatchCount(self, secs) ==
    [k \in 1..Len(Magic) |-> AsU8(Magic[k])]
    \o Timestamp(secs)
    \o SymbolSection(self.symbols)
    \o ConstantSection(self.constants)
    \o ConstructorSection(self.constructors)
    \o ChunkSection(self.chunks)
    \o InstructionSection(self.instructions)
    \o ToBeBytes(AsU16(Len(self.matches)), 2)

\* Bytecode::serialize, the clock reading secs
Serialize(self, secs) ==
    LET magic  == [k \in 1..Len(Magic) |-> AsU8(Magic[k])]
        stamp  == magic \o Timestamp(secs)
        syms   == stamp \o SymbolSection(self.symbols)
        consts == syms \o ConstantSection(self.constants)
        ctors  == consts \o ConstructorSection(self.constructors)
        chnks  == ctors \o ChunkSection(self.chunks)
        to_ret == chnks \o InstructionSection(self.instructions)
    IN  to_ret

----------------------------------------------------------------------------
(* What the compiler puts into a container, and the clock                  *)

\* The most symbols the compiler declares
MaxSymbols == 2

\* The most entries the compiler puts into each of the other five tables
MaxTableLen == 1

\* The longest instruction stream SpecStream feeds the encoder
MaxProg == 2

\* The most calls of Bytecode::serialize on one container
MaxCalls == 2

\* Symbol names: "foo" and "λ" (U+03BB)
Names == {<<102, 111, 111>>, <<955>>}

\* Constructor tag bytes
ConstructorTags == {2}

\* Top-level instructions
TopLevelOps == {<<"Def", 1, 300>>}

\* Chunks: two Tuple(1) instructions capturing symbol 258
Chunks == {[instructions |-> <<<<"Tuple", 1>>, <<"Tuple", 1>>>>,
            reference |-> <<258>>]}

\* Matches: one scrutinee with one arm (pat is a parser::Pattern, opaque here)
Matches == {[expression |-> <<<<"LoadSym", 0>>>>,
             patterns |-> <<[pat |-> "_", to_exec |-> <<<<"Tuple", 0>>>>]>>]}

\* Readings of SystemTime::now() in seconds since the epoch, as u64 limbs:
\* 1700000000 (0x6553F100) and 2^32 + 255
ClockReadings == {<<0, 0, 25939, 61696>>, <<0, 1, 0, 255>>}

\* The container of a large program: a top-level stream of 13108 Def
\* instructions, 65540 bytes of code, past the u16 range of its length field
OversizedContainers ==
    { [BytecodeNew EXCEPT !.instructions =
          [n \in 1..(U16Mod \div 5 + 1) |-> <<"Def", n, 1>>]] }

\* The compiler is still building the container: an oversized one is handed
\* over complete
Compiling(self) == self \notin OversizedContainers

----------------------------------------------------------------------------
(* SpecOp: OpCode::serialize applied to one instruction                    *)

InitOp ==
    /\ op = <<>>
    /\ ret = <<>>
    /\ prog = <<>>
    /\ enc = <<>>
    /\ bytecode = BytecodeNew
    /\ calls = <<>>

SerializeOp ==
    \E o \in OpCodes :
        /\ op' = o
        /\ ret' = OpSerialize(o)
        /\ UNCHANGED <<prog, enc, bytecode, calls>>

NextOp == SerializeOp

SpecOp == InitOp /\ [][NextOp]_vars

----------------------------------------------------------------------------
(* SpecStream: the iterator over an instruction list, one item a step      *)

\* The instructions of the streams: every variant, operands 1 and 65280
StreamOps == OpCodesOver({1, 65280}, {3, 255})

EmitInstr ==
    \E o \in StreamOps :
        /\ Len(prog) < MaxProg
        /\ prog' = Append(prog, o)
        /\ enc' = SerializeInstrs(prog')
        /\ UNCHANGED <<op, ret, bytecode, calls>>

NextStream == EmitInstr

SpecStream == InitOp /\ [][NextStream]_vars

----------------------------------------------------------------------------
(* Spec: a compiler fills a container, or hands over the container of a    *)
(* large program, then Bytecode::serialize is called                       *)

Init ==
    /\ op = <<>>
    /\ ret = <<>>
    /\ prog = <<>>
    /\ enc = <<>>
    /\ bytecode \in {BytecodeNew} \cup OversizedContainers
    /\ calls = <<>>

\* The compiler appends one entry to `field` (the fields are pub Vecs)
Push(field, entry, most) ==
    /\ calls = <<>>
    /\ Compiling(bytecode)
    /\ Len(bytecode[field]) < most
    /\ bytecode' = [bytecode EXCEPT ![field] = Append(@, entry)]
    /\ UNCHANGED <<op, ret, prog, enc, calls>>

PushSymbol == \E name \in Names : Push("symbols", name, MaxSymbols)

PushConstant == \E c \in Literals : Push("constants", c, MaxTableLen)

PushConstructor ==
    \E tag \in ConstructorTags : Push("constructors", tag, MaxTableLen)

PushChunk == \E chunk \in Chunks : Push("chunks", chunk, MaxTableLen)

PushInstruction == \E o \in TopLevelOps : Push("instructions", o, MaxTableLen)

PushMatch == \E m \in Matches : Push("matches", m, MaxTableLen)

\* A call of Bytecode::serialize; the clock reads secs
SerializeCall ==
    \E secs \in ClockReadings :
        /\ Len(calls) < MaxCalls
        /\ calls' = Append(calls, [at |-> secs, bytes |-> Serialize(bytecode, secs)])
        /\ UNCHANGED <<op, ret, prog, enc, bytecode>>

Next ==
    \/ PushSymbol
    \/ PushConstant
    \/ PushConstructor
    \/ PushChunk
    \/ PushInstruction
    \/ PushMatch
    \/ SerializeCall

Spec == Init /\ [][Next]_vars

----------------------------------------------------------------------------
(* Reading a layout back from bytes                                        *)

\* The 16-bit big-endian value held by bytes p and p + 1 of b
Val16(b, p) == b[p] * 256 + b[p + 1]

\* The sum of the items lo..hi of a sequence of numbers
RECURSIVE SumRange(_, _, _)
SumRange(f, lo, hi) ==
    IF lo > hi THEN 0
    ELSE IF lo = hi THEN f[lo]
    ELSE LET mid == (lo + hi) \div 2
         IN  SumRange(f, lo, mid) + SumRange(f, mid + 1, hi)

\* The documented encoding of one instruction: the tag, then hi and lo of
\* each 16-bit operand, or the two bytes of Builtin
DocumentedLayout(o) ==
    LET hi(x) == x \div 256
        lo(x) == x % 256
    IN  CASE o[1] = "LoadConst"   -> <<0, hi(o[2]), lo(o[2])>>
          [] o[1] = "LoadSym"     -> <<1, hi(o[2]), lo(o[2])>>
          [] o[1] = "Call"        -> <<2, hi(o[2]), lo(o[2])>>
          [] o[1] = "Builtin"     -> <<3, o[2], o[3]>>
          [] o[1] = "Def"         -> <<4, hi(o[2]), lo(o[2]), hi(o[3]), lo(o[3])>>
          [] o[1] = "Lambda"      -> <<5, hi(o[2]), lo(o[2])>>
          [] o[1] = "Constructor" -> <<6, hi(o[2]), lo(o[2]), hi(o[3]), lo(o[3])>>
          [] o[1] = "Tuple"       -> <<7, hi(o[2]), lo(o[2])>>

\* The length of an encoding, from its tag byte alone
TagLength(tag) == IF tag \in {4, 6} THEN 5 ELSE 3

\* The instruction a reader takes from the bytes of one encoding
DecodeOne(b) ==
    CASE b[1] = 0 -> <<"LoadConst", Val16(b, 2)>>
      [] b[1] = 1 -> <<"LoadSym", Val16(b, 2)>>
      [] b[1] = 2 -> <<"Call", Val16(b, 2)>>
      [] b[1] = 3 -> <<"Builtin", b[2], b[3]>>
      [] b[1] = 4 -> <<"Def", Val16(b, 2), Val16(b, 4)>>
      [] b[1] = 5 -> <<"Lambda", Val16(b, 2)>>
      [] b[1] = 6 -> <<"Constructor", Val16(b, 2), Val16(b, 4)>>
      [] b[1] = 7 -> <<"Tuple", Val16(b, 2)>>

\* The instructions a reader takes from a byte stream, cutting it by the tags
RECURSIVE DecodeStream(_)
DecodeStream(b) ==
    IF b = <<>> THEN <<>>
    ELSE IF b[1] > 7 \/ Len(b) < TagLength(b[1]) THEN <<"undecodable">>
    ELSE <<DecodeOne(SubSeq(b, 1, TagLength(b[1])))>>
         \o DecodeStream(SubSeq(b, TagLength(b[1]) + 1, Len(b)))

----------------------------------------------------------------------------
(* The instruction encoder                                                 *)

\* C1: whatever the OpCode, OpCode::serialize returns its tag byte (0..7 in
\* declaration order) followed by its operands in declaration order, a
\* 16-bit operand as the two bytes x div 256, x mod 256 and an 8-bit operand
\* as itself.
C1_TagThenBigEndianOperands ==
    op # <<>> => ret = DocumentedLayout(op)

\* Def(300, 65535) was encoded, as 4, 0x01 0x2C, 0xFF 0xFF
C1_Witness ==
    op = <<"Def", 300, 65535>> /\ ret = <<4, 1, 44, 255, 255>>

\* C10: the encoding is injective and self-delimiting.  No other OpCode has
\* the encoding of the instruction just emitted, the length of that encoding
\* is the one its tag byte gives (5 for tags 4 and 6, else 3), and a reader
\* that cuts the stream by the tag bytes alone gets back exactly the
\* instructions emitted: so two different instruction sequences never have
\* the same bytes.
C10_InjectiveSelfDelimiting ==
    /\ DecodeStream(enc) = prog
    /\ \A k \in 1..Len(prog) :
          LET bytes == OpSerialize(prog[k])
          IN  /\ Len(bytes) = TagLength(bytes[1])
              /\ \A o \in StreamOps : OpSerialize(o) = bytes => o = prog[k]

\* A 5-byte and a 3-byte instruction were emitted in a row
C10_Witness ==
    /\ prog = <<<<"Def", 1, 65280>>, <<"Lambda", 1>>>>
    /\ enc = <<4, 0, 1, 255, 0, 5, 0, 1>>

----------------------------------------------------------------------------
(* The documented sizes of the sections                                    *)

\* The documented length of an instruction's encoding: 3 or 5 bytes
VariantLength(o) == IF o[1] \in TwoU16 THEN 5 ELSE 3

EncodedLength(instrs) ==
    SumRange([k \in 1..Len(instrs) |-> VariantLength(instrs[k])], 1, Len(instrs))

SymbolSectionLength(symbols) ==
    2 + SumRange([k \in 1..Len(symbols) |-> Len(symbols[k]) + 1], 1, Len(symbols))

ConstantLength(c) == 1 + (IF c[1] = "String" THEN Len(c[2]) + 1 ELSE 8)

ConstantSectionLength(constants) ==
    2 + SumRange([k \in 1..Len(constants) |-> ConstantLength(constants[k])],
                 1, Len(constants))

ConstructorSectionLength(constructors) == 2 + Len(constructors)

ChunkLength(chunk) ==
    2 + 2 * Len(chunk.reference) + 2 + EncodedLength(chunk.instructions)

ChunkSectionLength(chunks) ==
    2 + SumRange([k \in 1..Len(chunks) |-> ChunkLength(chunks[k])], 1, Len(chunks))

InstructionSectionLength(instrs) == 2 + EncodedLength(instrs)

\* A table, a reference list or an instruction stream is past the u16 range
Oversized(self) ==
    \/ Len(self.symbols) >= U16Mod
    \/ Len(self.constants) >= U16Mod
    \/ Len(self.constructors) >= U16Mod
    \/ Len(self.chunks) >= U16Mod
    \/ \E k \in 1..Len(self.chunks) :
          \/ Len(self.chunks[k].reference) >= U16Mod
          \/ EncodedLength(self.chunks[k].instructions) >= U16Mod
    \/ EncodedLength(self.instructions) >= U16Mod

\* A symbol or a String constant has a char past the single-byte range
HasWideChar(self) ==
    \/ \E k \in 1..Len(self.symbols) :
          \E c \in 1..Len(self.symbols[k]) : self.symbols[k][c] > 255
    \/ \E k \in 1..Len(self.constants) :
          /\ self.constants[k][1] = "String"
          /\ \E c \in 1..Len(self.constants[k][2]) : self.constants[k][2][c] > 255

----------------------------------------------------------------------------
(* The container encoder                                                   *)

\* C2: the buffer a call returns is the magic bytes, the 4 timestamp bytes,
\* then the symbol table, the constant pool, the constructor table, the chunk
\* table and the top-level instructions, each at the offset the sizes of the
\* sections before it give, in this order; and it ends there, whatever
\* `matches` holds.
C2_SectionsInFixedOrder ==
    \A n \in 1..Len(calls) :
        LET b  == calls[n].bytes
            p1 == 9
            p2 == p1 + SymbolSectionLength(bytecode.symbols)
            p3 == p2 + ConstantSectionLength(bytecode.constants)
            p4 == p3 + ConstructorSectionLength(bytecode.constructors)
            p5 == p4 + ChunkSectionLength(bytecode.chunks)
            p6 == p5 + InstructionSectionLength(bytecode.instructions)
        IN  /\ SubSeq(b, 1, 5) = <<111, 114, 105, 111, 110>>
            /\ <<Val16(b, 6), Val16(b, 8)>> = SubSeq(calls[n].at, 3, 4)
            /\ SubSeq(b, p1 + 1, p2) = SymbolSection(bytecode.symbols)
            /\ SubSeq(b, p2 + 1, p3) = ConstantSection(bytecode.constants)
            /\ SubSeq(b, p3 + 1, p4) = ConstructorSection(bytecode.constructors)
            /\ SubSeq(b, p4 + 1, p5) = ChunkSection(bytecode.chunks)
            /\ SubSeq(b, p5 + 1, p6) = InstructionSection(bytecode.instructions)
            /\ Len(b) = p6

\* A container with an entry in every table, `matches` too, was serialized
C2_Witness ==
    /\ calls # <<>>
    /\ bytecode.symbols # <<>>
    /\ bytecode.constants # <<>>
    /\ bytecode.constructors # <<>>
    /\ bytecode.chunks # <<>>
    /\ bytecode.instructions # <<>>
    /\ bytecode.matches # <<>>

\* C5: two calls on one container return buffers of equal length that agree
\* on every byte outside the 4 timestamp bytes (offsets 5..8, positions
\* 6..9), and are identical when the clock read the same second.
C5_DeterministicModuloTime ==
    \A m, n \in 1..Len(calls) :
        LET a == calls[m].bytes
            b == calls[n].bytes
        IN  /\ Len(a) = Len(b)
            /\ \A p \in 1..Len(a) : p \notin 6..9 => a[p] = b[p]
            /\ calls[m].at = calls[n].at => a = b

\* A container with symbols was serialized at two different seconds, and the
\* two buffers differ
C5_Witness ==
    /\ Len(calls) = 2
    /\ calls[1].at # calls[2].at
    /\ calls[1].bytes # calls[2].bytes
    /\ bytecode.symbols # <<>>

\* C9 as stated: the empty container serializes to the magic, the timestamp,
\* eight zero-valued 16-bit counts and a 16-bit zero length: 27 bytes.
C9_EightZeroCounts ==
    bytecode = BytecodeNew =>
        \A n \in 1..Len(calls) :
            LET b == calls[n].bytes
            IN  /\ SubSeq(b, 1, 5) = <<111, 114, 105, 111, 110>>
                /\ <<Val16(b, 6), Val16(b, 8)>> = SubSeq(calls[n].at, 3, 4)
                /\ Len(b) = 5 + 4 + 8 * 2 + 2
                /\ \A p \in 10..Len(b) : b[p] = 0

\* C9 amended: the empty container serializes to the magic, the timestamp,
\* four zero-valued 16-bit counts (eight zero bytes) and a 16-bit zero
\* length: 19 bytes, of which only the timestamp differs between calls.
C9_FourZeroCounts ==
    bytecode = BytecodeNew =>
        \A n \in 1..Len(calls) :
            LET b == calls[n].bytes
            IN  /\ SubSeq(b, 1, 5) = <<111, 114, 105, 111, 110>>
                /\ <<Val16(b, 6), Val16(b, 8)>> = SubSeq(calls[n].at, 3, 4)
                /\ Len(b) = 5 + 4 + 4 * 2 + 2
                /\ \A p \in 10..Len(b) : b[p] = 0

\* The empty container was serialized twice, at different seconds
C9_Witness ==
    /\ bytecode = BytecodeNew
    /\ Len(calls) = 2
    /\ calls[1].at # calls[2].at

----------------------------------------------------------------------------
(* Errors                                                                  *)

\* Bytecode::serialize returns Vec<u8>: every call recorded in `calls`
\* returned a buffer, and a call that failed would have left none.

\* C3: serializing a container with a table, a reference list or an
\* instruction stream of more than 65,535 entries or bytes fails with
\* CapacityExceeded and produces no output: no call on such a container
\* returns a buffer.
C3_OversizedIsRejected ==
    Oversized(bytecode) => calls = <<>>

\* C4: serializing a container with a symbol or a String constant that has a
\* char past the single-byte range fails with UnsupportedCharacter: no call
\* on such a container returns a buffer.
C4_WideCharIsRejected ==
    HasWideChar(bytecode) => calls = <<>>

----------------------------------------------------------------------------
(* The tables                                                              *)

\* Chunk `chunk` is written in b from position p as the claim lays it out
ChunkAt(b, p, chunk) ==
    LET refs  == Len(chunk.reference)
        q     == p + 2 + 2 * refs
        total == EncodedLength(chunk.instructions)
    IN  /\ Val16(b, p) = refs
        /\ \A r \in 1..refs : Val16(b, p + 2 * r) = chunk.reference[r]
        /\ Val16(b, q) = total
        /\ SubSeq(b, q + 2, q + 1 + total)
             = Flatten([k \in 1..Len(chunk.instructions) |->
                            DocumentedLayout(chunk.instructions[k])])

\* C6: each chunk of the chunk table is its reference count as a 16-bit
\* big-endian value, its references as 2 big-endian bytes each, a 16-bit
\* big-endian length and the encodings of its instructions in order, the
\* length being the number of instruction bytes (3 or 5 an instruction).
C6_ChunkLayout ==
    \A n \in 1..Len(calls) :
        \A k \in 1..Len(bytecode.chunks) :
            LET table == 9 + SymbolSectionLength(bytecode.symbols)
                           + ConstantSectionLength(bytecode.constants)
                           + ConstructorSectionLength(bytecode.constructors)
                before == SumRange([j \in 1..Len(bytecode.chunks) |->
                                       ChunkLength(bytecode.chunks[j])], 1, k - 1)
            IN  ChunkAt(calls[n].bytes, table + 2 + before + 1, bytecode.chunks[k])

\* A container holding one chunk, two Tuple(1) capturing symbol 258, was
\* serialized: 1 reference, 0x0102, 6 bytes of code
C6_Witness ==
    /\ calls # <<>>
    /\ bytecode = [BytecodeNew EXCEPT !.chunks = <<[instructions |-> <<<<"Tuple", 1>>, <<"Tuple", 1>>>>,
                                                    reference |-> <<258>>]>>]
    /\ SubSeq(calls[1].bytes, 16, Len(calls[1].bytes))
         = <<0, 1, 0, 1, 1, 2, 0, 6, 7, 0, 1, 7, 0, 1, 0, 0>>

\* C7: the symbol table is the number of symbols as a 16-bit big-endian
\* count, then each symbol in order as one byte a char (the char itself when
\* it is a single-byte one) and a zero byte; it is 2 + sum(len + 1) bytes,
\* the rest of the buffer being the other sections.
C7_SymbolTableLayout ==
    \A n \in 1..Len(calls) :
        LET b    == calls[n].bytes
            syms == bytecode.symbols
        IN  /\ Val16(b, 10) = Len(syms)
            /\ \A k \in 1..Len(syms) :
                  LET at == 11 + SumRange([j \in 1..Len(syms) |-> Len(syms[j]) + 1],
                                          1, k - 1)
                  IN  /\ \A c \in 1..Len(syms[k]) :
                            syms[k][c] < 256 => b[at + c] = syms[k][c]
                      /\ b[at + Len(syms[k]) + 1] = 0
            /\ Len(b) = 9 + SymbolSectionLength(syms)
                          + ConstantSectionLength(bytecode.constants)
                          + ConstructorSectionLength(bytecode.constructors)
                          + ChunkSectionLength(bytecode.chunks)
                          + InstructionSectionLength(bytecode.instructions)

\* The symbols "foo" and "foo" of a container holding nothing else were
\* serialized
C7_Witness ==
    /\ calls # <<>>
    /\ bytecode = [BytecodeNew EXCEPT !.symbols = <<<<102, 111, 111>>, <<102, 111, 111>>>>]
    /\ SubSeq(calls[1].bytes, 10, Len(calls[1].bytes))
         = <<0, 2, 102, 111, 111, 0, 102, 111, 111, 0, 0, 0, 0, 0, 0, 0, 0, 0>>

\* x + y = 2^64, for x and y in 4 limbs: limb k and below sum to zero with
\* the carry they are given, and the carry out of the top limb is 1
RECURSIVE SumIsTwoTo64(_, _, _, _)
SumIsTwoTo64(x, y, k, carry) ==
    IF k = 0 THEN carry = 1
    ELSE LET t == x[k] + y[k] + carry
         IN  t % 65536 = 0 /\ SumIsTwoTo64(x, y, k - 1, t \div 65536)

\* Constant c is written in b from position p as the claim lays it out
ConstantAt(b, p, c) ==
    LET bits == <<Val16(b, p + 1), Val16(b, p + 3), Val16(b, p + 5), Val16(b, p + 7)>>
    IN  CASE c[1] = "String" ->
               /\ b[p] = 0
               /\ \A k \in 1..Len(c[2]) : c[2][k] < 256 => b[p + k] = c[2][k]
               /\ b[p + Len(c[2]) + 1] = 0
          [] c[1] = "Integer" ->
               /\ b[p] = 1
               /\ IF c[2].neg THEN SumIsTwoTo64(bits, c[2].mag, 4, 0)
                  ELSE bits = c[2].mag
          [] c[1] = "Single" ->
               /\ b[p] = 2
               /\ bits[1] \div 32768 = c[2].sign
               /\ (bits[1] \div 16) % 2048 = c[2].exp
               /\ <<bits[1] % 16, bits[2], bits[3], bits[4]>> = c[2].frac

\* C8: the constant pool is the number of constants as a 16-bit big-endian
\* count, then each constant in order as its discriminant (0 String,
\* 1 Integer, 2 Single) and its payload: the 8 bytes of the two's complement
\* of an Integer, the 8 bytes of the bit pattern of a Single, a byte a char
\* and a zero byte for a String.
C8_ConstantPoolLayout ==
    \A n \in 1..Len(calls) :
        LET b     == calls[n].bytes
            cs    == bytecode.constants
            table == 9 + SymbolSectionLength(bytecode.symbols)
        IN  /\ Val16(b, table + 1) = Len(cs)
            /\ \A k \in 1..Len(cs) :
                  ConstantAt(b, table + 2 + 1
                                  + SumRange([j \in 1..Len(cs) |-> ConstantLength(cs[j])],
                                             1, k - 1),
                             cs[k])

\* The constant -65536 of a container holding nothing else was serialized,
\* as 1 and 0xFFFFFFFFFFFF0000
C8_Witness ==
    /\ calls # <<>>
    /\ bytecode = [BytecodeNew EXCEPT !.constants =
                       <<<<"Integer", [neg |-> TRUE, mag |-> <<0, 0, 1, 0>>]>>>>]
    /\ SubSeq(calls[1].bytes, 12, Len(calls[1].bytes))
         = <<0, 1, 1, 255, 255, 255, 255, 255, 255, 0, 0, 0, 0, 0, 0, 0, 0>>

====
